---------------------------- MODULE Spec2Model ----------------------------
(***************************************************************************)
(* A model of the news/stock helper library:                               *)
(*   src/src/sentiment_analysis.py   scoring buckets of headline sentiment *)
(*   src/src/publisher_analysis.py   publisher and organization counts     *)
(*   src/src/text_processing.py      tokens and word frequencies           *)
(*   src/src/data_loader.py          per-ticker stock files                *)
(* Every function of the library is stateless, so each module gets a       *)
(* specification of its own: Init draws the call's inputs from bounded     *)
(* sets and the actions apply the functions to them.                       *)
(*                                                                         *)
(* Conventions.  A string that the code inspects character by character is *)
(* a sequence of one-character strings.  A table (DataFrame) is a record   *)
(* [columns, rows]: the set of column names and the sequence of rows, each *)
(* row a function from the column names to cell values.  The missing value *)
(* of pandas (NaN / None) is the cell value NaN.  A call's outcome is kept *)
(* in a sequence that is empty until the call has been made.               *)
(***************************************************************************)
EXTENDS Integers, Sequences, FiniteSets, TLC

VARIABLES
    \* sentiment_analysis.py
    headline_sentiment,   \* compound score the scorer gives each headline of the table
    sentiment_df,         \* <<>> or <<table returned by add_sentiment_analysis>>
    classified,           \* <<>> or <<[score, category]>> of a classify_sentiment call
    \* publisher_analysis.py
    email,                \* the string given to extract_organization_from_email
    organization,         \* <<>> or <<the string it returned>>
    news_df,              \* the news table given to the table functions
    pub_call,             \* <<>> or <<[op, args, out]>>: the last call on news_df
    \* the language resources of initialize_sentiment_analyzer and get_tokens
    nltk_data,            \* the resources present in the local nltk data directory
    res_pc,               \* [lookup, at]: the lookup the running function is at
    tries,                \* per lookup of the running call, the outcome of each attempt
    downloads,            \* per lookup of the running call, the nltk.download calls made
    calls_left,           \* headlines get_word_frequencies has yet to give get_tokens
    \* data_loader.py
    tickers,              \* the list given to load_stock_data
    files,                \* per ticker, what base_path holds for it
    load_pc,              \* "loop", "returned" or "raised"
    load_i,               \* position of the for loop in tickers
    stock_data,           \* the dictionary load_stock_data builds
    \* text_processing.py
    headlines,            \* the list given to get_word_frequencies
    word_call             \* <<>> or <<[top_n, out]>>: the call made on headlines

sentVars == <<headline_sentiment, sentiment_df, classified>>
pubVars == <<email, organization, news_df, pub_call>>
resVars == <<nltk_data, res_pc, tries, downloads, calls_left>>
loadVars == <<tickers, files, load_pc, load_i, stock_data>>
textVars == <<headlines, word_call>>
vars == <<sentVars, pubVars, resVars, loadVars, textVars>>

\* The missing value of pandas in a cell the model keeps as a TLA+ string.
NaN == "NaN"

\* The missing value of pandas in a cell the model keeps as a sequence of
\* characters (no text has this value: a character is one letter long).
NaNStr == <<"NaN">>

\* The outcome of a call: a returned value, or a raised exception.
Returned(v) == [raised |-> "none", value |-> v]
Raised(e) == [raised |-> e, value |-> <<>>]

Range(s) == {s[i] : i \in DOMAIN s}

\* All sequences over S of length at most n.
SeqUpTo(S, n) == UNION {[1..k -> S] : k \in 0..n}

-----------------------------------------------------------------------------
(***************************************************************************)
(* sentiment_analysis.py.  Compound scores are kept in tenths: the score   *)
(* 0.7 is the integer 7, the range [-1, 1] is -10..10.                     *)
(***************************************************************************)

\* Rows of the table given to add_sentiment_analysis.
MaxSentRows == 2

ScoreMin == -10
ScoreMax == 10
Scores == ScoreMin..ScoreMax

VeryPositiveMin == 7
PositiveMin == 1
NeutralMin == -1
NegativeMin == -7

Categories == {"very-positive", "positive", "neutral", "negative", "very-negative"}
Groups == {"positive", "neutral", "negative"}

classify_sentiment_strict(compound_score) ==
    IF compound_score > VeryPositiveMin THEN "very-positive"
    ELSE IF compound_score > PositiveMin THEN "positive"
    ELSE IF compound_score > NeutralMin THEN "neutral"
    ELSE IF compound_score > NegativeMin THEN "negative"
    ELSE "very-negative"

classify_sentiment(compound_score) ==
    IF compound_score >= VeryPositiveMin THEN "very-positive"
    ELSE IF compound_score >= PositiveMin THEN "positive"
    ELSE IF compound_score >= NeutralMin THEN "neutral"
    ELSE IF compound_score >= NegativeMin THEN "negative"
    ELSE "very-negative"

\* The bins and labels add_sentiment_analysis hands to pandas.cut.
cut_bins == <<-10, -7, -1, 1, 7, 10>>
cut_labels == <<"very-negative", "negative", "neutral", "positive", "very-positive">>

\* pandas.cut(x, bins, labels) with its defaults right=True and
\* include_lowest=False: bin i is the half-open interval (bins[i], bins[i+1]],
\* and a value in no bin (the lowest edge included) is missing.  precision
\* only formats generated labels and plays no part when labels are given.
cut(x, bins, labels) ==
    LET hit == {i \in 1..(Len(bins) - 1) : bins[i] < x /\ x <= bins[i + 1]}
    IN  IF hit = {} THEN NaN ELSE labels[CHOOSE i \in hit : TRUE]

\* Series.astype(str) of a categorical cell: the missing value becomes the
\* text 'nan'.
astype_str(cell) == IF cell = NaN THEN "nan" ELSE cell

\* Series.replace({'very-positive': 'positive', 'very-negative': 'negative'}).
replace_very(cell) ==
    IF cell = "very-positive" THEN "positive"
    ELSE IF cell = "very-negative" THEN "negative"
    ELSE cell

\* add_sentiment_analysis over the scores the scorer gave the headlines: the
\* three columns it adds, row by row.
add_sentiment_analysis(scores) ==
    [i \in DOMAIN scores |->
        LET category == cut(scores[i], cut_bins, cut_labels)
        IN  [headline_sentiment |-> scores[i],
             sentiment_category |-> category,
             sentiment_group    |-> replace_very(astype_str(category))]]

IdleSentiment ==
    /\ headline_sentiment = <<>>
    /\ sentiment_df = <<>>
    /\ classified = <<>>

IdlePublisher ==
    /\ email = <<>>
    /\ organization = <<>>
    /\ news_df = [columns |-> {}, rows |-> <<>>]
    /\ pub_call = <<>>

\* The lookups of language resources, in the order the code makes them.
Lookups == {"analyzer", "stopwords", "word_tokenize"}

IdleResources ==
    /\ nltk_data = {}
    /\ res_pc = [lookup |-> "none", at |-> "idle"]
    /\ tries = [l \in Lookups |-> <<>>]
    /\ downloads = [l \in Lookups |-> 0]
    /\ calls_left = 0

IdleLoader ==
    /\ tickers = <<>>
    /\ files = <<>>
    /\ load_pc = "idle"
    /\ load_i = 0
    /\ stock_data = <<>>

IdleText ==
    /\ headlines = <<>>
    /\ word_call = <<>>

InitSentiment ==
    /\ headline_sentiment \in SeqUpTo(Scores, MaxSentRows)
    /\ sentiment_df = <<>>
    /\ classified = <<>>
    /\ IdlePublisher /\ IdleResources /\ IdleLoader /\ IdleText

Call_add_sentiment_analysis ==
    /\ sentiment_df = <<>>
    /\ sentiment_df' = <<add_sentiment_analysis(headline_sentiment)>>
    /\ UNCHANGED <<headline_sentiment, classified, pubVars, resVars, loadVars, textVars>>

\* classify_sentiment called on the score of one row.
Call_classify_sentiment ==
    /\ \E i \in DOMAIN headline_sentiment :
          classified' = <<[score    |-> headline_sentiment[i],
                           category |-> classify_sentiment(headline_sentiment[i])]>>
    /\ UNCHANGED <<headline_sentiment, sentiment_df, pubVars, resVars, loadVars, textVars>>

NextSentiment ==
    \/ Call_add_sentiment_analysis
    \/ Call_classify_sentiment

SpecSentiment == InitSentiment /\ [][NextSentiment]_vars

\* C1: classify_sentiment is a total, non-overlapping partition of [-1, 1] with
\* every boundary in the upper bin: a score gets exactly one of the five
\* categories, very-positive from 0.7 up, positive from 0.1 up to below 0.7,
\* neutral from -0.1 up to below 0.1, negative from -0.7 up to below -0.1 and
\* very-negative below -0.7; so 0.7 is very-positive, 0.1 positive, -0.1
\* neutral and -0.7 negative.
C1_ClassifyPartition ==
    \A k \in DOMAIN classified :
        LET s == classified[k].score
            c == classified[k].category
        IN  /\ c \in Categories
            /\ (c = "very-positive") <=> (s >= 7)
            /\ (c = "positive")      <=> (s >= 1 /\ s < 7)
            /\ (c = "neutral")       <=> (s >= -1 /\ s < 1)
            /\ (c = "negative")      <=> (s >= -7 /\ s < -1)
            /\ (c = "very-negative") <=> (s < -7)

\* A boundary score has been classified into its upper bin.
C1_Witness ==
    /\ classified # <<>>
    /\ classified[1].score \in {7, 1, -1, -7}
    /\ classified[1].category =
          (CASE classified[1].score = 7  -> "very-positive"
             [] classified[1].score = 1  -> "positive"
             [] classified[1].score = -1 -> "neutral"
             [] classified[1].score = -7 -> "negative")

\* C2: the sentiment_category add_sentiment_analysis writes for a row is the
\* category classify_sentiment gives the row's compound score, for every score
\* of [-1, 1], the boundaries included, and it is never missing.
C2_TableMatchesClassifier ==
    \A k \in DOMAIN sentiment_df :
        \A i \in DOMAIN sentiment_df[k] :
            LET row == sentiment_df[k][i]
            IN  /\ row.sentiment_category # NaN
                /\ row.sentiment_category = classify_sentiment(row.headline_sentiment)

\* C3: every row add_sentiment_analysis returns has a sentiment_group that is
\* one of positive, neutral, negative and is the merge of the row's five-way
\* category: very-positive and positive give positive, very-negative and
\* negative give negative, neutral stays neutral.
C3_GroupIsMerge ==
    \A k \in DOMAIN sentiment_df :
        \A i \in DOMAIN sentiment_df[k] :
            LET row == sentiment_df[k][i]
            IN  /\ row.sentiment_group \in Groups
                /\ row.sentiment_category \in {"very-positive", "positive"}
                      => row.sentiment_group = "positive"
                /\ row.sentiment_category \in {"very-negative", "negative"}
                      => row.sentiment_group = "negative"
                /\ row.sentiment_category = "neutral"
                      => row.sentiment_group = "neutral"

-----------------------------------------------------------------------------
(***************************************************************************)
(* publisher_analysis.py: extract_organization_from_email.                 *)
(***************************************************************************)

\* Longest string given to extract_organization_from_email.
MaxEmailLen == 6

\* The characters of the strings: two letters, the at sign and the dot.
Chars == {"u", "d", "@", "."}

\* Positions of character c in string s.
Positions(s, c) == {i \in DOMAIN s : s[i] = c}

Min(S) == CHOOSE x \in S : \A y \in S : x <= y

\* str.split(sep) for a one-character separator: the pieces between the
\* separators, in order (a string without the separator is its own one piece).
RECURSIVE split(_, _)
split(s, sep) ==
    IF Positions(s, sep) = {} THEN <<s>>
    ELSE LET i == Min(Positions(s, sep))
         IN  <<SubSeq(s, 1, i - 1)>> \o split(SubSeq(s, i + 1, Len(s)), sep)

\* A slip that forgets to cut the domain at the dot.
extract_organization_keeps_tld(address) ==
    IF Positions(address, "@") = {} THEN address
    ELSE split(address, "@")[2]

\* Python indexes from 0: split('@')[1] is the second piece, split('.')[0]
\* the first.
extract_organization_from_email(address) ==
    IF Positions(address, "@") = {} THEN address
    ELSE LET domain == split(address, "@")[2]
         IN  split(domain, ".")[1]

InitExtract ==
    /\ email \in SeqUpTo(Chars, MaxEmailLen)
    /\ organization = <<>>
    /\ news_df = [columns |-> {}, rows |-> <<>>]
    /\ pub_call = <<>>
    /\ IdleSentiment /\ IdleResources /\ IdleLoader /\ IdleText

Call_extract_organization_from_email ==
    /\ organization = <<>>
    /\ organization' = <<extract_organization_from_email(email)>>
    /\ UNCHANGED <<email, news_df, pub_call, sentVars, resVars, loadVars, textVars>>

NextExtract == Call_extract_organization_from_email

SpecExtract == InitExtract /\ [][NextExtract]_vars

\* A string of the form user@domain.tld: one at sign, and a dot after it.
IsEmailForm(s) ==
    /\ Cardinality(Positions(s, "@")) = 1
    /\ \E q \in Positions(s, ".") : q > Min(Positions(s, "@"))

\* C4: for a string of the form user@domain.tld extract_organization_from_email
\* returns the text after the at sign and before the first dot that follows
\* it; a string without an at sign is returned unchanged.
C4_ExtractOrganization ==
    \A k \in DOMAIN organization :
        /\ IsEmailForm(email) =>
              LET p == Min(Positions(email, "@"))
                  q == Min({j \in Positions(email, ".") : j > p})
              IN  organization[k] = [i \in 1..(q - p - 1) |-> email[p + i]]
        /\ Positions(email, "@") = {} => organization[k] = email

\* An address with a user, a domain and a suffix, none empty, has been cut
\* to its domain.
C4_Witness ==
    /\ organization # <<>>
    /\ IsEmailForm(email)
    /\ email[1] # "@"
    /\ email[Len(email)] # "."
    /\ Len(organization[1]) >= 1
    /\ Len(organization[1]) < Len(email) - 3

-----------------------------------------------------------------------------
(***************************************************************************)
(* publisher_analysis.py: the functions over the news table.  The table    *)
(* has a publisher column of text (an object column: a text or a missing   *)
(* value per row) and a headline column; it may already have a column      *)
(* named organization or org.                                              *)
(***************************************************************************)

\* Rows of the news table.
MaxPubRows == 2

\* Largest top_n given to get_top_publishers.
MaxTopN == 2

\* Publisher cells: three e-mail publishers (two of one organization), a
\* publisher that is a plain name, and the missing value.
Publishers ==
    {<<"u", "@", "x", ".", "c">>, <<"v", "@", "x", ".", "c">>,
     <<"w", "@", "y", ".", "c">>, <<"r">>, NaNStr}

\* Headline cells: a headline, or the missing value.
Headlines == {"h", NaN}

\* Cells of an organization column the table already has.
OldOrganizations == {<<"o">>, NaNStr}

ColumnSets ==
    {{"publisher", "headline"},
     {"publisher", "headline", "organization"},
     {"publisher", "headline", "org"}}

\* The names a caller passes as organization_column.
OrganizationColumns == {"organization", "org"}

NewsRows(cols) ==
    {[c \in cols |-> CASE c = "publisher" -> p
                       [] c = "headline"  -> h
                       [] OTHER           -> o] :
        p \in Publishers, h \in Headlines,
        o \in IF cols = {"publisher", "headline"} THEN {NaNStr} ELSE OldOrganizations}

NewsTables ==
    UNION {{[columns |-> cols, rows |-> r] : r \in SeqUpTo(NewsRows(cols), MaxPubRows)} :
              cols \in ColumnSets}

\* Series.str.contains(ch, na=False) on one cell.
str_contains(cell, ch) == cell # NaNStr /\ Positions(cell, ch) # {}

\* The rows of df whose cell in column is v.
RowsWith(df, column, v) == {i \in DOMAIN df.rows : df.rows[i][column] = v}

\* The orders sort_values(ascending=False) can give the keys: every order in
\* which the counts do not increase (the default sort is not stable, so keys
\* of equal count come in any order).
SortedDescending(keys, count) ==
    {s \in [1..Cardinality(keys) -> keys] :
        /\ \A i, j \in DOMAIN s : i # j => s[i] # s[j]
        /\ \A i, j \in DOMAIN s : i < j => count[s[i]] >= count[s[j]]}

Max(a, b) == IF a >= b THEN a ELSE b

\* DataFrame.head(n): the first n rows, or all but the last -n when n < 0.
head(s, n) ==
    IF n >= 0 THEN SubSeq(s, 1, IF n <= Len(s) THEN n ELSE Len(s))
    ELSE SubSeq(s, 1, Max(0, Len(s) + n))

\* get_top_publishers: groupby drops the rows with a missing publisher and
\* count() counts, per group, the rows whose headline is present.  The set of
\* tables the call can return, one per order of the ties.
get_top_publishers(df, publisher_column, headline_column, top_n) ==
    LET keys == {df.rows[i][publisher_column] : i \in DOMAIN df.rows} \ {NaNStr}
        count == [p \in keys |->
                    Cardinality({i \in RowsWith(df, publisher_column, p) :
                                    df.rows[i][headline_column] # NaN})]
    IN  {Returned(head([i \in DOMAIN s |-> [publisher |-> s[i], headline |-> count[s[i]]]],
                       top_n)) :
            s \in SortedDescending(keys, count)}

\* A slip that runs the extraction over every row, so that a publisher
\* without an at sign passes through as its own organization.
add_organization_column_all_rows(df, publisher_column, organization_column) ==
    LET cols == df.columns \cup {organization_column}
    IN  Returned([columns |-> cols,
                  rows |-> [i \in DOMAIN df.rows |->
                      [c \in cols |->
                          IF c # organization_column THEN df.rows[i][c]
                          ELSE IF df.rows[i][publisher_column] = NaNStr THEN NaNStr
                          ELSE extract_organization_from_email(
                                   df.rows[i][publisher_column])]]])

\* add_organization_column: the copy of df in which the rows of email_mask
\* have the extracted organization; df.loc[email_mask, organization_column]
\* leaves the other rows as they were, and missing when the column is new.
add_organization_column(df, publisher_column, organization_column) ==
    IF publisher_column \notin df.columns THEN Raised("KeyError")
    ELSE
    LET email_mask == [i \in DOMAIN df.rows |->
                          str_contains(df.rows[i][publisher_column], "@")]
        cols == df.columns \cup {organization_column}
    IN  Returned([columns |-> cols,
                  rows |-> [i \in DOMAIN df.rows |->
                      [c \in cols |->
                          IF c # organization_column THEN df.rows[i][c]
                          ELSE IF email_mask[i]
                               THEN extract_organization_from_email(
                                        df.rows[i][publisher_column])
                          ELSE IF organization_column \in df.columns
                               THEN df.rows[i][c]
                          ELSE NaNStr]]])

\* Series.value_counts().reset_index() with the columns renamed: the values
\* present (missing ones are dropped) with their numbers of rows, largest
\* first.  The set of tables it can give, one per order of the ties.
value_counts(df, column) ==
    LET keys == {df.rows[i][column] : i \in DOMAIN df.rows} \ {NaNStr}
        count == [v \in keys |-> Cardinality(RowsWith(df, column, v))]
    IN  {[i \in DOMAIN s |-> [organization |-> s[i], count |-> count[s[i]]]] :
            s \in SortedDescending(keys, count)}

\* get_organization_counts: the column is added by add_organization_column
\* with that function's default names, whatever organization_column is; then
\* df[organization_column] raises KeyError when the table has no such column.
get_organization_counts(df, organization_column) ==
    LET added == IF organization_column \notin df.columns
                 THEN add_organization_column(df, "publisher", "organization")
                 ELSE Returned(df)
    IN  IF added.raised # "none" THEN {added}
        ELSE IF organization_column \notin added.value.columns
             THEN {Raised("KeyError")}
        ELSE {Returned(t) : t \in value_counts(added.value, organization_column)}

InitPublisher ==
    /\ news_df \in NewsTables
    /\ pub_call = <<>>
    /\ email = <<>>
    /\ organization = <<>>
    /\ IdleSentiment /\ IdleResources /\ IdleLoader /\ IdleText

Call_get_top_publishers ==
    /\ pub_call = <<>>
    /\ \E n \in 0..MaxTopN :
       \E result \in get_top_publishers(news_df, "publisher", "headline", n) :
          pub_call' = <<[op |-> "get_top_publishers", top_n |-> n, out |-> result]>>
    /\ UNCHANGED <<news_df, email, organization, sentVars, resVars, loadVars, textVars>>

Call_add_organization_column ==
    /\ pub_call = <<>>
    /\ \E oc \in OrganizationColumns :
          pub_call' = <<[op |-> "add_organization_column", organization_column |-> oc,
                         out |-> add_organization_column(news_df, "publisher", oc)]>>
    /\ UNCHANGED <<news_df, email, organization, sentVars, resVars, loadVars, textVars>>

Call_get_organization_counts ==
    /\ pub_call = <<>>
    /\ \E oc \in OrganizationColumns :
       \E result \in get_organization_counts(news_df, oc) :
          pub_call' = <<[op |-> "get_organization_counts", organization_column |-> oc,
                         out |-> result]>>
    /\ UNCHANGED <<news_df, email, organization, sentVars, resVars, loadVars, textVars>>

NextPublisher ==
    \/ Call_get_top_publishers
    \/ Call_add_organization_column
    \/ Call_get_organization_counts

SpecPublisher == InitPublisher /\ [][NextPublisher]_vars

\* The text of address s after its at sign and before the first dot after it.
EmailDomain(s) ==
    LET p == Min(Positions(s, "@"))
        q == Min({j \in Positions(s, ".") : j > p})
    IN  [i \in 1..(q - p - 1) |-> s[p + i]]

\* The sum of the count column of a frequency table.
RECURSIVE SumCounts(_)
SumCounts(t) == IF t = <<>> THEN 0 ELSE Head(t).count + SumCounts(Tail(t))

\* The rows of the news table whose publisher contains an at sign.
EmailRows == {i \in DOMAIN news_df.rows : str_contains(news_df.rows[i]["publisher"], "@")}

\* C5 (as claimed): in the table add_organization_column returns, a row whose
\* publisher contains an at sign has the extracted token as organization and a
\* row whose publisher is a text without an at sign has that publisher as its
\* organization; so the frequency table computed on demand accounts for every
\* row with a publisher.
C5_OrganizationForEveryRow ==
    \A k \in DOMAIN pub_call :
        LET call == pub_call[k]
        IN  /\ (call.op = "add_organization_column" /\ call.out.raised = "none") =>
                  \A i \in DOMAIN news_df.rows :
                      LET pub == news_df.rows[i]["publisher"]
                          org == call.out.value.rows[i][call.organization_column]
                      IN  /\ str_contains(pub, "@") => org = EmailDomain(pub)
                          /\ (pub # NaNStr /\ ~str_contains(pub, "@")) => org = pub
            /\ (/\ call.op = "get_organization_counts"
                /\ call.out.raised = "none"
                /\ call.organization_column \notin news_df.columns) =>
                  SumCounts(call.out.value) =
                      Cardinality({i \in DOMAIN news_df.rows :
                                      news_df.rows[i]["publisher"] # NaNStr})

\* C5 (amended): in the table add_organization_column returns, a row whose
\* publisher contains an at sign has the extracted token as organization, and
\* every other row keeps the organization it had, which is missing when the
\* column is new; so the frequency table computed on demand counts exactly the
\* rows whose publisher contains an at sign, each under its token.
C5_OrganizationForEmailRows ==
    \A k \in DOMAIN pub_call :
        LET call == pub_call[k]
            oc == call.organization_column
        IN  /\ (call.op = "add_organization_column" /\ call.out.raised = "none") =>
                  /\ call.out.value.columns = news_df.columns \cup {oc}
                  /\ Len(call.out.value.rows) = Len(news_df.rows)
                  /\ \A i \in DOMAIN news_df.rows :
                      LET pub == news_df.rows[i]["publisher"]
                          org == call.out.value.rows[i][oc]
                      IN  /\ i \in EmailRows => org = EmailDomain(pub)
                          /\ i \notin EmailRows =>
                                org = IF oc \in news_df.columns
                                      THEN news_df.rows[i][oc] ELSE NaNStr
            /\ (/\ call.op = "get_organization_counts"
                /\ call.out.raised = "none"
                /\ oc \notin news_df.columns) =>
                  /\ SumCounts(call.out.value) = Cardinality(EmailRows)
                  /\ \A j \in DOMAIN call.out.value :
                        call.out.value[j].count =
                            Cardinality({i \in EmailRows :
                                EmailDomain(news_df.rows[i]["publisher"])
                                    = call.out.value[j].organization})

\* add_organization_column has added a new column to a table with an e-mail
\* publisher and a plain-name publisher: the first has its token, the second
\* a missing organization.
C5_Witness ==
    /\ pub_call # <<>>
    /\ pub_call[1].op = "add_organization_column"
    /\ pub_call[1].out.raised = "none"
    /\ pub_call[1].organization_column \notin news_df.columns
    /\ \E i, j \in DOMAIN news_df.rows :
          /\ news_df.rows[i]["publisher"] = <<"u", "@", "x", ".", "c">>
          /\ pub_call[1].out.value.rows[i][pub_call[1].organization_column] = <<"x">>
          /\ news_df.rows[j]["publisher"] = <<"r">>
          /\ pub_call[1].out.value.rows[j][pub_call[1].organization_column] = NaNStr

\* C8: for a table that lacks the column named by organization_column,
\* whatever the name, get_organization_counts computes the column on demand
\* from the publisher column and returns the count table without an error.
C8_CountsOnDemand ==
    \A k \in DOMAIN pub_call :
        (/\ pub_call[k].op = "get_organization_counts"
         /\ pub_call[k].organization_column \notin news_df.columns) =>
            pub_call[k].out.raised = "none"

\* C10: get_top_publishers returns at most top_n publishers in non-increasing
\* order of count, the count of a publisher being the number of rows of the
\* table with that publisher, and no publisher left out has more rows than
\* one returned.
C10_TopPublishers ==
    \A k \in DOMAIN pub_call :
        (pub_call[k].op = "get_top_publishers" /\ pub_call[k].out.raised = "none") =>
            LET top == pub_call[k].out.value
                rowsOf(p) == Cardinality(RowsWith(news_df, "publisher", p))
                returned == {top[i].publisher : i \in DOMAIN top}
                present == {news_df.rows[i]["publisher"] : i \in DOMAIN news_df.rows}
                               \ {NaNStr}
            IN  /\ Len(top) <= pub_call[k].top_n
                /\ \A i, j \in DOMAIN top : i < j => top[i].headline >= top[j].headline
                /\ \A i \in DOMAIN top : top[i].headline = rowsOf(top[i].publisher)
                /\ \A p \in present \ returned :
                      \A q \in returned : rowsOf(p) <= rowsOf(q)

-----------------------------------------------------------------------------
(***************************************************************************)
(* The language resources.  initialize_sentiment_analyzer makes one lookup *)
(* (the analyzer needs vader_lexicon); get_tokens makes two, in order (the *)
(* stop words need stopwords, word_tokenize needs punkt_tab).  A lookup of *)
(* a resource that is not in the nltk data directory raises LookupError.   *)
(* nltk.download reports a failure by its return value, which the code     *)
(* does not read: after it, any of the packages asked for may be present.  *)
(***************************************************************************)

Resources == {"vader_lexicon", "stopwords", "punkt_tab"}

\* Longest list of headlines get_word_frequencies walks through.
MaxTokenCalls == 2

\* The resource a lookup reads.
Needs(lookup) ==
    CASE lookup = "analyzer"      -> "vader_lexicon"
      [] lookup = "stopwords"     -> "stopwords"
      [] lookup = "word_tokenize" -> "punkt_tab"

\* The packages the except clause of a lookup downloads.
Packages(lookup) ==
    CASE lookup = "analyzer"      -> {"vader_lexicon"}
      [] lookup = "stopwords"     -> {"stopwords", "punkt_tab"}
      [] lookup = "word_tokenize" -> {"punkt_tab"}

\* Where the function goes on after a lookup that succeeded.
After(lookup) ==
    CASE lookup = "analyzer"      -> [lookup |-> "analyzer", at |-> "returned"]
      [] lookup = "stopwords"     -> [lookup |-> "word_tokenize", at |-> "try"]
      [] lookup = "word_tokenize" -> [lookup |-> "word_tokenize", at |-> "returned"]

InitResources ==
    /\ nltk_data \in SUBSET Resources
    /\ res_pc = [lookup |-> "none", at |-> "idle"]
    /\ tries = [l \in Lookups |-> <<>>]
    /\ downloads = [l \in Lookups |-> 0]
    /\ calls_left = 0
    /\ IdleSentiment /\ IdlePublisher /\ IdleLoader /\ IdleText

\* A call of initialize_sentiment_analyzer begins.
Call_initialize_sentiment_analyzer ==
    /\ res_pc.at = "idle"
    /\ res_pc' = [lookup |-> "analyzer", at |-> "try"]
    /\ UNCHANGED <<nltk_data, tries, downloads, calls_left, sentVars, pubVars, loadVars, textVars>>

\* A call of get_tokens begins: on its own, or as the first of the calls
\* get_word_frequencies makes, one per headline of a list that is not empty.
Call_get_tokens ==
    /\ res_pc.at = "idle"
    /\ res_pc' = [lookup |-> "stopwords", at |-> "try"]
    /\ \E n \in 1..MaxTokenCalls : calls_left' = n - 1
    /\ UNCHANGED <<nltk_data, tries, downloads, sentVars, pubVars, loadVars, textVars>>

\* get_tokens has returned and get_word_frequencies calls it for the next
\* headline.
NextHeadline ==
    /\ res_pc = [lookup |-> "word_tokenize", at |-> "returned"]
    /\ calls_left > 0
    /\ calls_left' = calls_left - 1
    /\ res_pc' = [lookup |-> "stopwords", at |-> "try"]
    /\ tries' = [l \in Lookups |-> <<>>]
    /\ downloads' = [l \in Lookups |-> 0]
    /\ UNCHANGED <<nltk_data, sentVars, pubVars, loadVars, textVars>>

\* The try block: the first attempt of a lookup.
Try(lookup) ==
    /\ res_pc = [lookup |-> lookup, at |-> "try"]
    /\ IF Needs(lookup) \in nltk_data
       THEN /\ tries' = [tries EXCEPT ![lookup] = Append(@, "ok")]
            /\ res_pc' = After(lookup)
       ELSE /\ tries' = [tries EXCEPT ![lookup] = Append(@, "LookupError")]
            /\ res_pc' = [lookup |-> lookup, at |-> "download"]
    /\ UNCHANGED <<nltk_data, downloads, calls_left, sentVars, pubVars, loadVars, textVars>>

\* The except clause, first line: one nltk.download call for the packages.
Download(lookup) ==
    /\ res_pc = [lookup |-> lookup, at |-> "download"]
    /\ \E got \in SUBSET Packages(lookup) : nltk_data' = nltk_data \cup got
    /\ downloads' = [downloads EXCEPT ![lookup] = @ + 1]
    /\ res_pc' = [lookup |-> lookup, at |-> "retry"]
    /\ UNCHANGED <<tries, calls_left, sentVars, pubVars, loadVars, textVars>>

\* A slip that, when the second attempt fails too, downloads once more.
RetryInLoop(lookup) ==
    /\ res_pc = [lookup |-> lookup, at |-> "retry"]
    /\ Len(tries[lookup]) < 3
    /\ IF Needs(lookup) \in nltk_data
       THEN /\ tries' = [tries EXCEPT ![lookup] = Append(@, "ok")]
            /\ res_pc' = After(lookup)
       ELSE /\ tries' = [tries EXCEPT ![lookup] = Append(@, "LookupError")]
            /\ res_pc' = [lookup |-> lookup, at |-> "download"]
    /\ UNCHANGED <<nltk_data, downloads, calls_left, sentVars, pubVars, loadVars, textVars>>

\* The except clause, second line: the second attempt, outside any try, so
\* that its LookupError leaves the function.
Retry(lookup) ==
    /\ res_pc = [lookup |-> lookup, at |-> "retry"]
    /\ IF Needs(lookup) \in nltk_data
       THEN /\ tries' = [tries EXCEPT ![lookup] = Append(@, "ok")]
            /\ res_pc' = After(lookup)
       ELSE /\ tries' = [tries EXCEPT ![lookup] = Append(@, "LookupError")]
            /\ res_pc' = [lookup |-> lookup, at |-> "raised"]
    /\ UNCHANGED <<nltk_data, downloads, calls_left, sentVars, pubVars, loadVars, textVars>>

\* The caller is done: the function returned for its last headline, or its
\* LookupError went up through get_word_frequencies, which catches nothing.
\* The next call finds the nltk data directory as this one left it.
Finish ==
    /\ \/ res_pc.at = "raised"
       \/ res_pc.at = "returned" /\ calls_left = 0
    /\ res_pc' = [lookup |-> "none", at |-> "idle"]
    /\ tries' = [l \in Lookups |-> <<>>]
    /\ downloads' = [l \in Lookups |-> 0]
    /\ calls_left' = 0
    /\ UNCHANGED <<nltk_data, sentVars, pubVars, loadVars, textVars>>

NextResources ==
    \/ Call_initialize_sentiment_analyzer
    \/ Call_get_tokens
    \/ \E lookup \in Lookups : Try(lookup)
    \/ \E lookup \in Lookups : Download(lookup)
    \/ \E lookup \in Lookups : Retry(lookup)
    \/ NextHeadline
    \/ Finish

SpecResources == InitResources /\ [][NextResources]_vars

\* C6: each lookup follows a single fetch-and-retry.  If the first attempt
\* succeeds there is no download and no second attempt; if it fails, exactly
\* one download is made and the lookup is attempted exactly once more; if that
\* attempt fails the error leaves the function, with no further download or
\* attempt.
C6_SingleFetchAndRetry ==
    \A l \in Lookups :
        /\ Len(tries[l]) <= 2
        /\ downloads[l] <= 1
        /\ (tries[l] # <<>> /\ tries[l][1] = "ok") =>
              (Len(tries[l]) = 1 /\ downloads[l] = 0)
        /\ (tries[l] # <<>> /\ tries[l][1] = "LookupError") =>
              \/ (res_pc = [lookup |-> l, at |-> "download"]
                    /\ Len(tries[l]) = 1 /\ downloads[l] = 0)
              \/ (res_pc = [lookup |-> l, at |-> "retry"]
                    /\ Len(tries[l]) = 1 /\ downloads[l] = 1)
              \/ (Len(tries[l]) = 2 /\ downloads[l] = 1)
        /\ (Len(tries[l]) = 2 /\ tries[l][2] = "LookupError") =>
              res_pc = [lookup |-> l, at |-> "raised"]
        /\ res_pc = [lookup |-> l, at |-> "raised"] =>
              tries[l] = <<"LookupError", "LookupError">>
        /\ downloads[l] = 0 => Len(tries[l]) <= 1

\* get_tokens has left by the LookupError of its second word_tokenize attempt,
\* after one download for it, the stop words having been found at once.
C6_Witness ==
    /\ res_pc = [lookup |-> "word_tokenize", at |-> "raised"]
    /\ tries["stopwords"] = <<"ok">>
    /\ downloads["stopwords"] = 0
    /\ tries["word_tokenize"] = <<"LookupError", "LookupError">>
    /\ downloads["word_tokenize"] = 1

-----------------------------------------------------------------------------
(***************************************************************************)
(* data_loader.py: load_stock_data, one step per iteration of its loop.    *)
(***************************************************************************)

\* Longest list of tickers.
MaxTickers == 3

TickerPool == {"AAPL", "MSFT", "TSLA"}

\* What base_path holds for a ticker: no file, a CSV file with a Date
\* column, a CSV file without one, or a file pandas.read_csv cannot read.
FileKinds == {"missing", "dated", "undated", "malformed"}

\* os.path.exists(file_path) for the file of a ticker.
path_exists(ticker) == files[ticker] # "missing"

\* The table read from the file of a ticker, as far as the loader looks at
\* it: whether its Date column was there to be converted.
read_csv(ticker) ==
    [Date |-> IF files[ticker] = "dated" THEN "datetime" ELSE "absent"]

InitLoader ==
    /\ tickers \in SeqUpTo(TickerPool, MaxTickers)
    /\ files \in [TickerPool -> FileKinds]
    /\ load_pc = "loop"
    /\ load_i = 1
    /\ stock_data = <<>>
    /\ IdleSentiment /\ IdlePublisher /\ IdleResources /\ IdleText

\* The if branch: the file exists and is read into the dictionary (a second
\* occurrence of a ticker overwrites its entry).
ReadFile ==
    /\ load_pc = "loop"
    /\ load_i <= Len(tickers)
    /\ files[tickers[load_i]] \in {"dated", "undated"}
    /\ stock_data' = [t \in DOMAIN stock_data \cup {tickers[load_i]} |->
                         IF t = tickers[load_i] THEN read_csv(t) ELSE stock_data[t]]
    /\ load_i' = load_i + 1
    /\ UNCHANGED <<tickers, files, load_pc, sentVars, pubVars, resVars, textVars>>

\* The if branch when pandas.read_csv raises: nothing catches it.
ReadFails ==
    /\ load_pc = "loop"
    /\ load_i <= Len(tickers)
    /\ files[tickers[load_i]] = "malformed"
    /\ load_pc' = "raised"
    /\ UNCHANGED <<tickers, files, load_i, stock_data, sentVars, pubVars, resVars, textVars>>

\* A slip that leaves the loop at the first missing file.
SkipMissingBreaks ==
    /\ load_pc = "loop"
    /\ load_i <= Len(tickers)
    /\ ~path_exists(tickers[load_i])
    /\ load_i' = Len(tickers) + 1
    /\ UNCHANGED <<tickers, files, load_pc, stock_data, sentVars, pubVars, resVars, textVars>>

\* The else branch: a warning is printed and the loop goes on.
SkipMissing ==
    /\ load_pc = "loop"
    /\ load_i <= Len(tickers)
    /\ ~path_exists(tickers[load_i])
    /\ load_i' = load_i + 1
    /\ UNCHANGED <<tickers, files, load_pc, stock_data, sentVars, pubVars, resVars, textVars>>

\* The loop is over: return stock_data.
ReturnStockData ==
    /\ load_pc = "loop"
    /\ load_i > Len(tickers)
    /\ load_pc' = "returned"
    /\ UNCHANGED <<tickers, files, load_i, stock_data, sentVars, pubVars, resVars, textVars>>

NextLoader ==
    \/ ReadFile
    \/ ReadFails
    \/ SkipMissing
    \/ ReturnStockData

SpecLoader == InitLoader /\ [][NextLoader]_vars

\* C7: load_stock_data raises no error for a ticker whose file is missing
\* and goes on to the tickers after it, and the mapping it returns has as
\* keys exactly the listed tickers whose file exists.
C7_KeysAreExistingTickers ==
    /\ load_pc = "returned" =>
          DOMAIN stock_data = {t \in Range(tickers) : files[t] # "missing"}
    /\ load_pc = "raised" => files[tickers[load_i]] # "missing"
    /\ load_pc = "loop" =>
          DOMAIN stock_data =
              {tickers[j] : j \in {k \in DOMAIN tickers :
                                      k < load_i /\ files[tickers[k]] # "missing"}}

\* The call has returned for a list in which a ticker without a file comes
\* before one with a file: the second is a key, the first is not.
C7_Witness ==
    /\ load_pc = "returned"
    /\ \E i, j \in DOMAIN tickers :
          /\ i < j
          /\ files[tickers[i]] = "missing"
          /\ files[tickers[j]] # "missing"
          /\ tickers[i] \notin DOMAIN stock_data
          /\ tickers[j] \in DOMAIN stock_data

-----------------------------------------------------------------------------
(***************************************************************************)
(* text_processing.py: get_tokens and get_word_frequencies.  A headline is *)
(* the sequence of its words: nltk.word_tokenize, a library routine, cuts  *)
(* the lowercased headline into them.                                      *)
(***************************************************************************)

\* Longest list of headlines and longest headline, in words.
MaxHeadlines == 2
MaxWords == 2

\* Largest top_n given to get_word_frequencies.
MaxTopWords == 2

\* The words of the headlines.
Words == {"Markets", "markets", "soar", "highs", "to", "!", "2024"}

\* str.lower on a word.
lower(word) == IF word = "Markets" THEN "markets" ELSE word

\* nltk.corpus.stopwords.words('english'), as far as the words go.
stop_words == {"to"}

\* string.punctuation, as far as the words go.
punctuation == {"!"}

\* str.isalpha on a word.
isalpha(word) == word \notin {"!", "2024"}

\* nltk.word_tokenize on the lowercased headline.
word_tokenize(headline) == [i \in DOMAIN headline |-> lower(headline[i])]

\* The filter loop of get_tokens with its default flags, over the tokens
\* left to look at (a token has no blank to strip and is never empty).
RECURSIVE keep_tokens(_)
keep_tokens(tokens) ==
    IF tokens = <<>> THEN <<>>
    ELSE LET token == Head(tokens)
         IN  IF token \in stop_words THEN keep_tokens(Tail(tokens))
             ELSE IF token \in punctuation THEN keep_tokens(Tail(tokens))
             ELSE IF ~isalpha(token) THEN keep_tokens(Tail(tokens))
             ELSE <<token>> \o keep_tokens(Tail(tokens))

get_tokens(headline) == keep_tokens(word_tokenize(headline))

\* all_tokens of get_word_frequencies: the tokens of the headlines, in order.
RECURSIVE all_tokens(_)
all_tokens(hs) ==
    IF hs = <<>> THEN <<>> ELSE get_tokens(Head(hs)) \o all_tokens(Tail(hs))

\* Counter(tokens).most_common(): each distinct token with its count, the
\* larger count first and, among equal counts, the token met first (sorted
\* is stable and a Counter keeps insertion order).
most_common(tokens) ==
    LET keys == Range(tokens)
        count(w) == Cardinality(Positions(tokens, w))
        first(w) == Min(Positions(tokens, w))
        order == CHOOSE s \in [1..Cardinality(keys) -> keys] :
                    \A i, j \in 1..Cardinality(keys) :
                        i < j => \/ count(s[i]) > count(s[j])
                                 \/ count(s[i]) = count(s[j]) /\ first(s[i]) < first(s[j])
    IN  [i \in 1..Cardinality(keys) |-> [word |-> order[i], count |-> count(order[i])]]

\* An optional argument: <<>> is None, <<n>> is the number n.
None == <<>>

\* Python's truth value of top_n: None and 0 are false.
truthy(top_n) == top_n # None /\ top_n[1] # 0

\* Counter.most_common(n) is heapq.nlargest(n, ...): the first n pairs of
\* most_common().
get_word_frequencies(hs, top_n) ==
    LET word_counts == most_common(all_tokens(hs))
    IN  IF truthy(top_n) THEN head(word_counts, top_n[1]) ELSE word_counts

InitText ==
    /\ headlines \in SeqUpTo(SeqUpTo(Words, MaxWords), MaxHeadlines)
    /\ word_call = <<>>
    /\ nltk_data \in {{}, {"stopwords", "punkt_tab"}}
    /\ res_pc = [lookup |-> "none", at |-> "idle"]
    /\ tries = [l \in Lookups |-> <<>>]
    /\ downloads = [l \in Lookups |-> 0]
    /\ calls_left = 0
    /\ IdleSentiment /\ IdlePublisher /\ IdleLoader

\* get_word_frequencies returns: every get_tokens call found its resources,
\* at once or after its download.
Call_get_word_frequencies ==
    /\ word_call = <<>>
    /\ \E top_n \in {None} \cup {<<n>> : n \in 0..MaxTopWords} :
          word_call' = <<[top_n |-> top_n,
                          out |-> Returned(get_word_frequencies(headlines, top_n))]>>
    /\ nltk_data' = IF headlines = <<>> THEN nltk_data
                    ELSE nltk_data \cup {"stopwords", "punkt_tab"}
    /\ UNCHANGED <<headlines, res_pc, tries, downloads, calls_left,
                   sentVars, pubVars, loadVars>>

\* get_word_frequencies is left by the LookupError of its first get_tokens
\* call: a resource is missing and the download did not bring it.
Call_get_word_frequencies_fails ==
    /\ word_call = <<>>
    /\ headlines # <<>>
    /\ ~({"stopwords", "punkt_tab"} \subseteq nltk_data)
    /\ \E top_n \in {None} \cup {<<n>> : n \in 0..MaxTopWords} :
          word_call' = <<[top_n |-> top_n, out |-> Raised("LookupError")]>>
    /\ UNCHANGED <<headlines, resVars, sentVars, pubVars, loadVars>>

NextText ==
    \/ Call_get_word_frequencies
    \/ Call_get_word_frequencies_fails

SpecText == InitText /\ [][NextText]_vars

\* C9: without truncation the counts get_word_frequencies returns sum to the
\* number of tokens get_tokens yields over the headlines, each distinct token
\* appears exactly once and the counts do not increase along the list; when
\* top_n is given, the result is the first top_n pairs of that ordering.
C9_WordFrequencies ==
    \A k \in DOMAIN word_call :
        word_call[k].out.raised = "none" =>
            LET result == word_call[k].out.value
                top_n == word_call[k].top_n
                tokens == all_tokens(headlines)
                full == most_common(tokens)
            IN  /\ top_n = None =>
                      /\ SumCounts(result) = Len(tokens)
                      /\ {result[i].word : i \in DOMAIN result} = Range(tokens)
                      /\ \A i, j \in DOMAIN result :
                            /\ i # j => result[i].word # result[j].word
                            /\ i < j => result[i].count >= result[j].count
                /\ top_n # None =>
                      /\ Len(result) = IF top_n[1] <= Len(full) THEN top_n[1] ELSE Len(full)
                      /\ \A i \in DOMAIN result : result[i] = full[i]

=============================================================================
